---- MODULE Spec2Model ----
(***************************************************************************)
(* web_assets_converter (src/main.rs): one pass of main() over the asset   *)
(* tree.  The file system is a function from paths to file contents; each  *)
(* entry the walk yields is handled by one action that performs the whole  *)
(* loop body of main(), convert_image or copy_file_as_is included.  The    *)
(* asset directory is named "assets", so main() asks no question before    *)
(* the walk; the walk yields the entries present when it starts, in any    *)
(* order.                                                                  *)
(***************************************************************************)
EXTENDS Integers, Sequences, FiniteSets, TLC

\* ------------------------------------------------------------------ bounds
MaxAssets == 2      \* entries of the asset tree at the first run
MaxRuns == 2        \* invocations of the program over the same trees
MaxDrvLen == 3      \* largest byte length the transcoder may produce
MaxWalk == 1        \* a further run starts only on a tree of at most this many entries

\* ------------------------------------------------------- program constants
MIB == 1048576      \* const MIB: u64 = 2_u64.pow(20)

\* ------------------------------------------------------------------- paths
\* A path is root / dir / stem "." ext.  A stem is a sequence of tokens
\* joined by "_" ("a_high" is <<"a", "high">>); ext "" is "no extension".
DstRoot == "../dist/assets"
SrcRoot == "assets"

Pth(r, d, s, e) == [root |-> r, dir |-> d, stem |-> s, ext |-> e]

\* OsStr::to_lowercase on the extensions that occur
to_lowercase(e) ==
    CASE e = "PNG" -> "png"
      [] e = "Png" -> "png"
      [] e = "JPG" -> "jpg"
      [] e = "JPEG" -> "jpeg"
      [] OTHER -> e

\* contents: a regular file or a directory, the identity of its bytes, its length
Orig(p, n) == [kind |-> "file", id |-> <<"orig", p, "">>, len |-> n]
DirAt(p) == [kind |-> "dir", id |-> <<"dir", p, "">>, len |-> 0]
Drv(p, tier, n) == [kind |-> "file", id |-> <<"drv", p, tier>>, len |-> n]
Truncated(p) == [kind |-> "file", id |-> <<"empty", p, "">>, len |-> 0]

Put(f, p, c) == [q \in (DOMAIN f) \cup {p} |-> IF q = p THEN c ELSE f[q]]

\* Path::exists
exists(f, p) == p \in DOMAIN f

\* Path::is_file
is_file(f, p) == p \in DOMAIN f /\ f[p].kind = "file"

\* ----------------------------------------------------- external operations
\* What one run of the `convert` command can do: the process cannot be
\* spawned (output() is Err), it runs and writes nothing (its exit status is
\* never inspected), or it writes a file of some length to its last argument.
Outcomes ==
    {[res |-> "spawn_err", len |-> 0], [res |-> "no_output", len |-> 0]}
    \cup {[res |-> "written", len |-> n] : n \in 1..MaxDrvLen}

\* a directory cannot be decoded: nothing is written for it
OutcomeFits(f, source, out) ==
    out.res = "written" => is_file(f, source)

\* Command::new("convert").arg(source)...arg(dest).output()
convert(f, source, tier, dest, out) ==
    IF out.res = "written" THEN Put(f, dest, Drv(source, tier, out.len)) ELSE f

\* std::fs::copy, io in {"ok", "trunc", "fail"}: "fail" is an I/O error that
\* leaves the destination alone; copying a file onto itself truncates it
\* ("trunc") or leaves it as it is ("ok"); a directory is refused.
IoResults == {"ok", "trunc", "fail"}

fs_copy(f, from, to, io) ==
    IF ~is_file(f, from) \/ io = "fail" THEN [ok |-> FALSE, f |-> f, wrote |-> {}]
    ELSE IF from = to
         THEN [ok |-> TRUE,
               f |-> IF io = "trunc" THEN Put(f, to, Truncated(to)) ELSE f,
               wrote |-> {to}]
         ELSE [ok |-> TRUE, f |-> Put(f, to, f[from]), wrote |-> {to}]

\* std::fs::create_dir_all on the parent of p: the directory entry of a
\* one-level relative directory appears if it was not there
create_dir_all(f, p) ==
    IF p.dir = <<>> THEN f
    ELSE LET d == Pth(p.root, <<>>, p.dir, "")
         IN IF d \in DOMAIN f THEN f ELSE Put(f, d, DirAt(d))

\* ------------------------------------------------------------ path mapping
\* get_destination_path: strip the asset root, push onto the destination root
get_destination_path(source, a) ==
    IF source.root = a.asset_path
    THEN [ok |-> TRUE, path |-> Pth(a.destination_path, source.dir, source.stem, source.ext)]
    ELSE [ok |-> FALSE, path |-> source]

\* destination_path.set_extension("jpg") when the extension lowercases to png
NormalizedBase(d) ==
    IF to_lowercase(d.ext) = "png" THEN [d EXCEPT !.ext = "jpg"] ELSE d

\* set_file_name(format!("{org_file_name}_high.{org_extension}")) and _thumb
WithSuffix(d, suffix) == [d EXCEPT !.stem = Append(@, suffix)]

\* ------------------------------------------------------------ convert_image
Tiers == {"standard", "high", "thumb"}

\* what happened at one tier of one convert_image call
BlankTier(dest) ==
    [dest |-> dest, checked |-> FALSE, existed |-> FALSE, invoked |-> FALSE,
     res |-> "none", len |-> 0, srcLen |-> 0,
     compared |-> FALSE, copied |-> FALSE, wrote |-> {}]

\* the fields every regeneration check fills in
Checked(dest, existed, regen, out, srcLen) ==
    [BlankTier(dest) EXCEPT !.checked = TRUE, !.existed = existed, !.invoked = regen,
                            !.res = IF regen THEN out.res ELSE "none",
                            !.len = IF regen /\ out.res = "written" THEN out.len ELSE 0,
                            !.srcLen = srcLen]

\* mutants of the regeneration check: the test of existence inverted, the
\* clean flag ignored, the check dropped
RegenInverted(a, f, dest) == a.clean \/ exists(f, dest)
RegenIgnoresClean(a, f, dest) == ~exists(f, dest)
RegenAlways(a, f, dest) == TRUE

\* if args.clean || !destination_path.exists()
RegenerationNeeded(a, f, dest) == a.clean \/ ~exists(f, dest)

\* destination_path.metadata().unwrap().len() > source_path.metadata().unwrap().len()
DerivativeLarger(f, dest, source) == f[dest].len > f[source].len

\* lines 113-125: the mapped path, normalized once, and its parent directory
convert_image_begin(f, source, a) ==
    LET d == get_destination_path(source, a)
        base == NormalizedBase(d.path)
    IN  IF ~d.ok
        THEN [f |-> f, status |-> "Err", base |-> base, mkdir |-> FALSE,
              tiers |-> [t \in Tiers |-> BlankTier(base)]]
        ELSE [f |-> create_dir_all(f, base), status |-> "running", base |-> base,
              mkdir |-> TRUE,
              tiers |-> [t \in Tiers |->
                          BlankTier(IF t = "standard" THEN base
                                    ELSE WithSuffix(base, IF t = "high" THEN "high"
                                                          ELSE "thumb"))]]

\* lines 126-152: the standard tier; the size comparison follows the
\* regeneration block and copies to the mapped path before normalization
StandardTier(m, source, a, out, io) ==
    IF m.status # "running" THEN m
    ELSE
    LET dest == m.base
        existed == exists(m.f, dest)
        regen == RegenerationNeeded(a, m.f, dest)
        f1 == IF regen THEN convert(m.f, source, "standard", dest, out) ELSE m.f
        t1 == [Checked(dest, existed, regen, out, f1[source].len)
                 EXCEPT !.wrote = IF regen /\ out.res = "written" THEN {dest} ELSE {}]
    IN  IF regen /\ out.res = "spawn_err"
        THEN [m EXCEPT !.status = "Err", !.tiers["standard"] = t1]
        ELSE IF ~exists(f1, dest)
        THEN [m EXCEPT !.status = "panic", !.tiers["standard"] = t1]
        ELSE IF ~DerivativeLarger(f1, dest, source)
        THEN [m EXCEPT !.f = f1, !.tiers["standard"] = [t1 EXCEPT !.compared = TRUE]]
        ELSE LET to == get_destination_path(source, a).path
                 cp == fs_copy(f1, source, to, io)
             IN  [m EXCEPT !.f = cp.f,
                           !.status = IF cp.ok THEN "running" ELSE "Err",
                           !.tiers["standard"] =
                               [t1 EXCEPT !.compared = TRUE, !.copied = cp.ok,
                                          !.wrote = @ \cup cp.wrote]]

\* lines 154-188: the high tier; the size comparison is inside the
\* regeneration block and copies to the tier's own path
HighTier(m, source, a, out, io) ==
    IF m.status # "running" THEN m
    ELSE
    LET dest == WithSuffix(m.base, "high")
        existed == exists(m.f, dest)
        regen == RegenerationNeeded(a, m.f, dest)
        f1 == IF regen THEN convert(m.f, source, "high", dest, out) ELSE m.f
        t1 == [Checked(dest, existed, regen, out, f1[source].len)
                 EXCEPT !.wrote = IF regen /\ out.res = "written" THEN {dest} ELSE {}]
    IN  IF ~regen
        THEN [m EXCEPT !.tiers["high"] = t1]
        ELSE IF out.res = "spawn_err"
        THEN [m EXCEPT !.status = "Err", !.tiers["high"] = t1]
        ELSE IF ~exists(f1, dest)
        THEN [m EXCEPT !.status = "panic", !.tiers["high"] = t1]
        ELSE IF ~DerivativeLarger(f1, dest, source)
        THEN [m EXCEPT !.f = f1, !.tiers["high"] = [t1 EXCEPT !.compared = TRUE]]
        ELSE LET cp == fs_copy(f1, source, dest, io)
             IN  [m EXCEPT !.f = cp.f,
                           !.status = IF cp.ok THEN "running" ELSE "Err",
                           !.tiers["high"] =
                               [t1 EXCEPT !.compared = TRUE, !.copied = cp.ok,
                                          !.wrote = @ \cup cp.wrote]]

\* lines 189-210: the thumbnail tier, named from the base path; no size
\* comparison follows it
ThumbTier(m, source, a, out) ==
    IF m.status # "running" THEN m
    ELSE
    LET dest == WithSuffix(m.base, "thumb")
        existed == exists(m.f, dest)
        regen == RegenerationNeeded(a, m.f, dest)
        f1 == IF regen THEN convert(m.f, source, "thumb", dest, out) ELSE m.f
        t1 == [Checked(dest, existed, regen, out, f1[source].len)
                 EXCEPT !.wrote = IF regen /\ out.res = "written" THEN {dest} ELSE {}]
    IN  IF regen /\ out.res = "spawn_err"
        THEN [m EXCEPT !.status = "Err", !.tiers["thumb"] = t1]
        ELSE [m EXCEPT !.f = f1, !.status = "Ok", !.tiers["thumb"] = t1]

\* fn convert_image(source_path, args) -> Result<()>; outs gives the outcome
\* of each `convert` run the call makes, io that of its std::fs::copy calls
convert_image(f, source, a, outs, io) ==
    CHOOSE m3 \in
      UNION { UNION { UNION { {ThumbTier(m2, source, a, outs["thumb"])}
                              : m2 \in {HighTier(m1, source, a, outs["high"], io)} }
                      : m1 \in {StandardTier(m0, source, a, outs["standard"], io)} }
              : m0 \in {convert_image_begin(f, source, a)} } : TRUE

\* ---------------------------------------------------------- copy_file_as_is
\* mutant: the test for identical paths left out
copy_file_as_is_unguarded(f, file, a, io) ==
    LET d == get_destination_path(file, a)
        new_path == d.path
    IN  IF ~d.ok
        THEN [f |-> f, status |-> "Err", why |-> "prefix", mkdir |-> FALSE, wrote |-> {}]
        ELSE LET f1 == create_dir_all(f, new_path)
                 cp == fs_copy(f1, file, new_path, io)
             IN  [f |-> cp.f, status |-> IF cp.ok THEN "Ok" ELSE "Err",
                  why |-> IF cp.ok THEN "" ELSE "io", mkdir |-> TRUE, wrote |-> cp.wrote]

\* mutant: the copy goes through the image path's extension rewrite
copy_file_as_is_rewriting(f, file, a, io) ==
    LET d == get_destination_path(file, a)
        new_path == [d.path EXCEPT !.ext = "jpg"]
    IN  IF ~d.ok
        THEN [f |-> f, status |-> "Err", why |-> "prefix", mkdir |-> FALSE, wrote |-> {}]
        ELSE IF new_path = file
        THEN [f |-> f, status |-> "Err", why |-> "same", mkdir |-> FALSE, wrote |-> {}]
        ELSE LET f1 == create_dir_all(f, new_path)
                 cp == fs_copy(f1, file, new_path, io)
             IN  [f |-> cp.f, status |-> IF cp.ok THEN "Ok" ELSE "Err",
                  why |-> IF cp.ok THEN "" ELSE "io", mkdir |-> TRUE, wrote |-> cp.wrote]

\* fn copy_file_as_is(file, args) -> Result<()>
copy_file_as_is(f, file, a, io) ==
    LET d == get_destination_path(file, a)
        new_path == d.path
    IN  IF ~d.ok
        THEN [f |-> f, status |-> "Err", why |-> "prefix", mkdir |-> FALSE, wrote |-> {}]
        ELSE IF new_path = file
        THEN [f |-> f, status |-> "Err", why |-> "same", mkdir |-> FALSE, wrote |-> {}]
        ELSE LET f1 == create_dir_all(f, new_path)
                 cp == fs_copy(f1, file, new_path, io)
             IN  [f |-> cp.f, status |-> IF cp.ok THEN "Ok" ELSE "Err",
                  why |-> IF cp.ok THEN "" ELSE "io", mkdir |-> TRUE, wrote |-> cp.wrote]

\* --------------------------------------------------------------------- main
VARIABLES
    fs,         \* the file system: path -> contents
    args,       \* Args of the current invocation
    run,        \* which invocation this is
    todo,       \* entries the walk has not yielded yet
    status,     \* "walking", or "aborted" once main has returned Err or panicked
    last,       \* what the handling of the latest entry did
    written,    \* <<entry, path>>: path was written while handling entry, this run
    transcodes, \* `convert` runs made in this invocation
    failures,   \* some operation of this invocation failed
    prev        \* the previous invocation: its args, outcome and trees

vars == <<fs, args, run, todo, status, last, written, transcodes, failures, prev>>

NoPath == Pth("", <<>>, <<>>, "")

NoReport ==
    [entry |-> NoPath, route |-> "none", result |-> "none", why |-> "",
     src |-> DirAt(NoPath), mkdir |-> FALSE, wrote |-> {},
     tiers |-> [t \in Tiers |-> BlankTier(NoPath)]]

\* Some("jpg" | "JPG" | "png" | "PNG" | "jpeg")
ExtensionMatches(e) == e \in {"jpg", "JPG", "png", "PNG", "jpeg"}

\* mutant: a file exactly at the cutoff is copied
UnderCutoffInclusive(len, a) == len <= a.max_file_size * MIB

\* file_size < args.max_file_size * MIB
UnderCutoff(len, a) == len < a.max_file_size * MIB

\* WalkDir::new(&args.asset_path): every entry below the asset root
WalkEntries(f, a) == {p \in DOMAIN f : p.root = a.asset_path}

\* the asset trees of the first invocation: regular files, a directory with
\* an image extension, and a file in a subdirectory
FileNames ==
    {<<(<<"a">>), "jpg">>, <<(<<"a">>), "png">>, <<(<<"a">>), "PNG">>,
     <<(<<"a">>), "JPEG">>, <<(<<"a">>), "txt">>, <<(<<"a", "high">>), "jpg">>}
DirNames == {<<(<<"b">>), "png">>}
SubDir == <<"gallery">>
FileLens == {2, MIB}
\* an image is compared with its derivatives only: one length below MaxDrvLen
LensOf(p) == IF ExtensionMatches(p.ext) THEN {2} ELSE FileLens
MaxFileSizes == {0, 1}

Universe ==
    {[path |-> Pth(SrcRoot, <<>>, n[1], n[2]), kind |-> "file"] : n \in FileNames}
    \cup {[path |-> Pth(SrcRoot, <<>>, n[1], n[2]), kind |-> "dir"] : n \in DirNames}
    \cup {[path |-> Pth(SrcRoot, SubDir, <<"a">>, "txt"), kind |-> "file"]}

\* the directories the entries of a tree lie in
Parents(tree) ==
    {[path |-> Pth(SrcRoot, <<>>, x.path.dir, ""), kind |-> "dir"] :
        x \in {y \in tree : y.path.dir # <<>>}}

RECURSIVE Trees(_)
Trees(k) ==
    IF k = 0 THEN {{}}
    ELSE LET T == Trees(k - 1) IN T \cup {t \cup {x} : t \in T, x \in Universe}

Init ==
    /\ \E chosen \in Trees(MaxAssets) :
         \E tree \in {chosen \cup Parents(chosen)} :
           \E lens \in [{x.path : x \in tree} -> FileLens] :
             /\ \A p \in DOMAIN lens : lens[p] \in LensOf(p)
             /\ fs = [p \in {x.path : x \in tree} |->
                        IF [path |-> p, kind |-> "dir"] \in tree THEN DirAt(p)
                        ELSE Orig(p, lens[p])]
    /\ \E d \in {SrcRoot, DstRoot}, m \in MaxFileSizes, c \in BOOLEAN :
         /\ args = [asset_path |-> SrcRoot, destination_path |-> d,
                    max_file_size |-> m, clean |-> c]
         \* the cutoff is read for regular files whose extension does not match
         /\ m = 0 => \E p \in DOMAIN fs : is_file(fs, p) /\ ~ExtensionMatches(p.ext)
    /\ run = 1
    /\ todo = WalkEntries(fs, args)
    /\ status = "walking"
    /\ last = NoReport
    /\ written = {}
    /\ transcodes = 0
    /\ failures = FALSE
    /\ prev = [clean |-> FALSE, clear |-> FALSE, fs |-> fs]

Invoked(m) == {t \in Tiers : m.tiers[t].invoked}
WroteOf(m) == UNION {m.tiers[t].wrote : t \in Tiers}
TranscodeFailed(m) == \E t \in Tiers : m.tiers[t].res \in {"spawn_err", "no_output"}

\* the outcomes a tier's `convert` run can have in this call: one silent
\* value when the regeneration check will not run it
Silent == [res |-> "no_output", len |-> 0]

TierDest(source, a, t) ==
    LET base == NormalizedBase(get_destination_path(source, a).path)
    IN  IF t = "standard" THEN base
        ELSE WithSuffix(base, IF t = "high" THEN "high" ELSE "thumb")

OutcomesAt(f, source, a, t) ==
    IF RegenerationNeeded(a, f, TierDest(source, a, t))
    THEN {o \in Outcomes : OutcomeFits(f, source, o)}
    ELSE {Silent}

\* lines 51-59: the extension matches, convert_image(entry.path(), &args)?
HandleImage(e) ==
    /\ status = "walking"
    /\ e \in todo
    /\ ExtensionMatches(e.ext)
    /\ \E o1 \in OutcomesAt(fs, e, args, "standard"),
          o2 \in OutcomesAt(fs, e, args, "high"),
          o3 \in OutcomesAt(fs, e, args, "thumb"),
          io \in IoResults :
         \E m \in {convert_image(fs, e, args,
                                  [t \in Tiers |-> IF t = "standard" THEN o1
                                                   ELSE IF t = "high" THEN o2 ELSE o3],
                                  io)} :
             /\ fs' = m.f
             /\ status' = IF m.status = "Ok" THEN "walking" ELSE "aborted"
             /\ last' = [entry |-> e, route |-> "image", result |-> m.status,
                         why |-> "", src |-> fs[e], mkdir |-> m.mkdir,
                         wrote |-> WroteOf(m), tiers |-> m.tiers]
             /\ written' = written \cup {<<e, p>> : p \in WroteOf(m)}
             /\ transcodes' = transcodes + Cardinality(Invoked(m))
             /\ failures' = (failures \/ m.status # "Ok" \/ TranscodeFailed(m))
    /\ todo' = todo \ {e}
    /\ UNCHANGED <<args, run, prev>>

\* lines 63-73: a regular file under the cutoff, copy_file_as_is, Err printed
HandlePlain(e) ==
    /\ status = "walking"
    /\ e \in todo
    /\ ~ExtensionMatches(e.ext)
    /\ is_file(fs, e)
    /\ UnderCutoff(fs[e].len, args)
    /\ \E io \in IoResults :
         \E r \in {copy_file_as_is(fs, e, args, io)} :
             /\ fs' = r.f
             /\ last' = [entry |-> e, route |-> "plain", result |-> r.status,
                         why |-> r.why, src |-> fs[e], mkdir |-> r.mkdir,
                         wrote |-> r.wrote,
                         tiers |-> [t \in Tiers |-> BlankTier(NoPath)]]
             /\ written' = written \cup {<<e, p>> : p \in r.wrote}
             /\ failures' = (failures \/ r.status # "Ok")
    /\ todo' = todo \ {e}
    /\ UNCHANGED <<args, run, status, transcodes, prev>>

\* lines 63-75: not a regular file, or a file at or over the cutoff
SkipEntry(e) ==
    /\ status = "walking"
    /\ e \in todo
    /\ ~ExtensionMatches(e.ext)
    /\ ~(is_file(fs, e) /\ UnderCutoff(fs[e].len, args))
    /\ last' = [NoReport EXCEPT !.entry = e, !.route = "skip", !.result = "Ok",
                                !.src = fs[e]]
    /\ todo' = todo \ {e}
    /\ UNCHANGED <<fs, args, run, status, written, transcodes, failures, prev>>

\* the program is started again on the same trees, with the same roots and
\* cutoff; the clean flag is the caller's choice
NextRun ==
    /\ run < MaxRuns
    /\ status = "aborted" \/ todo = {}
    /\ Cardinality(WalkEntries(fs, args)) <= MaxWalk
    /\ \E c \in BOOLEAN : args' = [args EXCEPT !.clean = c]
    /\ run' = run + 1
    /\ todo' = WalkEntries(fs, args)
    /\ status' = "walking"
    /\ last' = NoReport
    /\ written' = {}
    /\ transcodes' = 0
    /\ failures' = FALSE
    /\ prev' = [clean |-> args.clean, clear |-> (status = "walking" /\ ~failures),
                fs |-> fs]
    /\ UNCHANGED fs

\* the program is started again with the same arguments, over the unchanged
\* asset tree, after an incremental run in which nothing failed
Rerun ==
    /\ run < MaxRuns
    /\ status = "walking" /\ todo = {}
    /\ ~failures
    /\ ~args.clean
    /\ \A p \in WalkEntries(fs, args) \cup WalkEntries(prev.fs, args) :
         p \in DOMAIN fs /\ p \in DOMAIN prev.fs /\ fs[p] = prev.fs[p]
    /\ run' = run + 1
    /\ todo' = WalkEntries(fs, args)
    /\ last' = NoReport
    /\ written' = {}
    /\ transcodes' = 0
    /\ failures' = FALSE
    /\ prev' = [clean |-> args.clean, clear |-> TRUE, fs |-> fs]
    /\ UNCHANGED <<fs, args, status>>

Next ==
    \/ \E e \in todo : HandleImage(e)
    \/ \E e \in todo : HandlePlain(e)
    \/ \E e \in todo : SkipEntry(e)
    \/ NextRun

Spec == Init /\ [][Next]_vars

NextTwice ==
    \/ \E e \in todo : HandleImage(e)
    \/ \E e \in todo : HandlePlain(e)
    \/ \E e \in todo : SkipEntry(e)
    \/ Rerun

SpecTwice == Init /\ [][NextTwice]_vars

\* ------------------------------------------------------------------- claims
\* the terms of the claims, spelled as the claims state them
IsImageName(e) == to_lowercase(e.ext) \in {"jpg", "jpeg", "png"}
Normalized(e) == IF to_lowercase(e.ext) = "png" THEN "jpg" ELSE e.ext
BaseMapped(e) == Pth(args.destination_path, e.dir, e.stem, Normalized(e))
TierPath(e, t) ==
    Pth(args.destination_path, e.dir,
        IF t = "standard" THEN e.stem
        ELSE Append(e.stem, IF t = "high" THEN "high" ELSE "thumb"),
        Normalized(e))
TierPaths(e) == {TierPath(e, t) : t \in Tiers}
Mirror(e) == Pth(args.destination_path, e.dir, e.stem, e.ext)
Cutoff == args.max_file_size * MIB
DestTree(f) == [p \in {q \in DOMAIN f : q.root = args.destination_path} |-> f[p]]
JustWroteLarger(r) == r.invoked /\ r.res = "written" /\ r.len > r.srcLen

\* C1: when convert_image returns, every tier whose derivative was just
\* written larger than the source holds exactly the source's bytes at the
\* tier's (normalized) destination path.
C1_FallbackAllTiers ==
    (last.route = "image" /\ last.result = "Ok") =>
        \A t \in Tiers :
            JustWroteLarger(last.tiers[t]) =>
                /\ TierPath(last.entry, t) \in DOMAIN fs
                /\ fs[TierPath(last.entry, t)] = last.src

\* C2: a failure while handling one entry never stops the run: no entry is
\* left unprocessed once the run has ended.
C2_RunContinues == status = "aborted" => todo = {}

\* C3 (as stated): with clean false and the tier's destination present, the
\* tier is skipped entirely: no transcode, no copy of the original, no file
\* created or overwritten for it.
SkippedTier(r) == r.checked /\ r.existed /\ ~args.clean

C5_Idempotent ==
    (run > 1 /\ prev.clear /\ ~prev.clean /\ ~args.clean) =>
        /\ transcodes = 0
        /\ DestTree(fs) = DestTree(prev.fs)

C5_Witness ==
    /\ run > 1 /\ prev.clear /\ ~args.clean
    /\ status = "walking" /\ todo = {}
    /\ last.route = "image"
    /\ \A t \in Tiers : last.tiers[t].checked /\ last.tiers[t].existed
    /\ \E p \in DOMAIN fs : p.root = args.destination_path /\ fs[p].id[1] = "drv"

\* C6: an entry goes to convert_image exactly when it is a regular file
\* whose extension is jpg, jpeg or png in any letter case.
C6_Classification ==
    last.route # "none" =>
        ((last.route = "image") <=> (last.src.kind = "file" /\ IsImageName(last.entry)))

\* C7: a copy of a plain file onto its own path fails with the self-copy
\* error before any directory is created or file written, and the source
\* keeps its bytes.
C7_SelfCopy ==
    (last.route = "plain" /\ Mirror(last.entry) = last.entry) =>
        /\ last.result = "Err" /\ last.why = "same"
        /\ ~last.mkdir
        /\ last.wrote = {}
        /\ fs[last.entry] = last.src

C7_Witness ==
    /\ last.route = "plain" /\ Mirror(last.entry) = last.entry
    /\ last.why = "same"

\* C8: a plain file at or over max_file_size * 2^20 bytes is not written to
\* the destination and raises no error; one under the cutoff whose
\* destination differs from its source is at destination_root/relative_path
\* with the source's bytes, unless the copy itself reported an I/O error.
IsPlainFile(c, e) == c.kind = "file" /\ ~IsImageName(e)

C8_SizeCutoff ==
    /\ \A p \in WalkEntries(fs, args) :
         (IsPlainFile(fs[p], p) /\ fs[p].len >= Cutoff /\ Mirror(p) # p) =>
             Mirror(p) \notin DOMAIN fs
    /\ (last.route # "none" /\ IsPlainFile(last.src, last.entry)) =>
         /\ last.src.len >= Cutoff =>
              last.route = "skip" /\ last.result = "Ok" /\ last.wrote = {}
         /\ (last.src.len < Cutoff /\ Mirror(last.entry) # last.entry) =>
              \/ last.result = "Ok" /\ fs[Mirror(last.entry)] = last.src
              \/ last.result = "Err" /\ last.why = "io"

C8_Witness ==
    /\ last.route = "skip" /\ IsPlainFile(last.src, last.entry)
    /\ last.src.len = Cutoff /\ Cutoff > 0
    /\ \E x \in written :
         /\ IsPlainFile(fs[x[1]], x[1]) /\ fs[x[1]].len < Cutoff
         /\ x[2] = Mirror(x[1]) /\ x[2] # x[1] /\ fs[x[2]] = fs[x[1]]

\* C9: handling an image writes only the three tier paths name.E,
\* name_high.E, name_thumb.E, E being jpg for a PNG source.
C9_Layout ==
    last.route = "image" => last.wrote \subseteq TierPaths(last.entry)

\* C10 (as stated): two distinct entries whose base-mapped destination paths
\* differ never write the same destination path.
C10_SingleWriter ==
    \A x \in written, y \in written :
        (x[1] # y[1] /\ BaseMapped(x[1]) # BaseMapped(y[1])) => x[2] # y[2]

\* C10 (amended): two distinct entries whose base-mapped destination paths
\* differ, neither being the high or thumbnail tier path of the other, never
\* write the same destination path.
C10_SingleWriterAmended ==
    \A x \in written, y \in written :
        (/\ x[1] # y[1]
         /\ BaseMapped(x[1]) # BaseMapped(y[1])
         /\ BaseMapped(x[1]) \notin TierPaths(y[1])
         /\ BaseMapped(y[1]) \notin TierPaths(x[1])) => x[2] # y[2]

C10_Witness ==
    \E x \in written, y \in written :
        /\ x[1] # y[1]
        /\ BaseMapped(x[1]) # BaseMapped(y[1])
        /\ BaseMapped(x[1]) \notin TierPaths(y[1])
        /\ BaseMapped(y[1]) \notin TierPaths(x[1])
        /\ last.route = "image"

====
